---- MODULE Spec2Model ----
(***************************************************************************)
(* A model of moonlite/utils/dashboard.py: the retrying cookie acquisition *)
(* (get_cookies), the listing scraper (get_apps) and the thread-pool       *)
(* fan-out that builds the package -> app mapping (get_packages).          *)
(***************************************************************************)
EXTENDS Integers, Sequences, FiniteSets, TLC

VARIABLES
    \* get_cookies
    dashboard,      \* the Dashboards member passed to get_cookies
    ck_pc,          \* "idle" | "while" | "after" | "returned" | "raised"
    tries,          \* the local counter `tries`
    cj,             \* the cookie jar read by the current attempt (iteration order)
    cookies,        \* the local dict `cookies`: name -> value
    reads,          \* number of jar reads performed so far
    attempts,       \* history: the outcome (success flag) of each finished attempt
    \* get_apps
    ga_pc,          \* "idle" | "fetch" | "loop" | "returned" | "raised"
    store_pages_only,
    listing,        \* the parsed listing page (soup)
    row_i,          \* index of the next element of app_rows
    apps,           \* the local list `apps`
    kept,           \* history: indices of the rows appended to apps
    \* get_packages
    gp_pc,          \* "idle" | "start" | "get_apps" | "map" | "shutdown" | "returned" | "raised"
    get_app_results,\* the argument get_app_results
    app_ids,        \* the local list `app_ids`
    submitted,      \* number of work items pool.map has submitted so far
    work_queue,     \* the executor's FIFO queue of submitted, not yet started items
    task,           \* per work item (call of app_thread): its state and locals
    packages,       \* the shared dict `packages`
    package_lock,   \* 0 when free, else the index of the work item holding it
    pool_threads,   \* the executor's max_workers: the most threads it starts
    result          \* what get_packages handed to its caller

ck_vars == <<dashboard, ck_pc, tries, cj, cookies, reads, attempts>>
ga_vars == <<ga_pc, store_pages_only, listing, row_i, apps, kept>>
gp_vars == <<gp_pc, get_app_results, app_ids, submitted, work_queue, task, packages,
            package_lock, pool_threads, result>>
vars == <<ck_vars, ga_vars, gp_vars>>

\* Python's None, and a present value, for a result that may be None
None == <<>>
Some(x) == <<x>>
Val(opt) == opt[1]

(***************************************************************************)
(* Python helpers                                                          *)
(***************************************************************************)

\* str.startswith
StartsWith(s, prefix) ==
    /\ Len(prefix) <= Len(s)
    /\ SubSeq(s, 1, Len(prefix)) = prefix

Range(f) == {f[x] : x \in DOMAIN f}

\* d[k] = v on a dict modelled as a function
DictSet(d, k, v) == [x \in (DOMAIN d) \cup {k} |-> IF x = k THEN v ELSE d[x]]

EmptyDict == [x \in {} |-> ""]

\* All sequences over S without repeated elements, of length at most n
RECURSIVE DistinctSeqs(_, _)
DistinctSeqs(S, n) ==
    IF n = 0 THEN {<<>>}
    ELSE LET shorter == DistinctSeqs(S, n - 1)
         IN  shorter \cup
             {Append(s, x) : <<s, x>> \in
                 {p \in shorter \X S : Len(p[1]) = n - 1 /\ p[2] \notin Range(p[1])}}

\* All sequences over S of length at most n
RECURSIVE SeqsUpTo(_, _)
SeqsUpTo(S, n) ==
    IF n = 0 THEN {<<>>}
    ELSE LET shorter == SeqsUpTo(S, n - 1)
         IN  shorter \cup
             {Append(p[1], p[2]) : p \in {q \in shorter \X S : Len(q[1]) = n - 1}}

(***************************************************************************)
(* Dashboards                                                              *)
(***************************************************************************)

STEAMGAMES ==
    [portal_domain |-> "partner.steamgames.com",
     cookies_required_prefixes |-> {"sessionid", "steamLoginSecure", "steamMachineAuth"}]

STEAMPOWERED ==
    [portal_domain |-> "partner.steampowered.com",
     cookies_required_prefixes |-> {"steamLoginSecure", "steamMachineAuth"}]

Dashboards == {STEAMGAMES, STEAMPOWERED}

(***************************************************************************)
(* get_cookies                                                             *)
(***************************************************************************)

\* Longest jar the browser hands out in the model
MaxJarLen == 3

\* The cookie records a browser's store may hold.  A jar keeps one cookie per
\* (domain, path, name), so two records of one name and domain differ in path.
CookieRecords ==
    { [domain |-> "partner.steamgames.com",   path |-> "/",     name |-> "sessionid",            value |-> "a"],
      [domain |-> "partner.steamgames.com",   path |-> "/",     name |-> "steamLoginSecure",     value |-> "b"],
      [domain |-> "partner.steamgames.com",   path |-> "/",     name |-> "steamMachineAuth7656", value |-> "c"],
      [domain |-> "partner.steampowered.com", path |-> "/",     name |-> "steamLoginSecure",     value |-> "d"],
      [domain |-> "partner.steampowered.com", path |-> "/apps", name |-> "steamLoginSecure",     value |-> "e"],
      [domain |-> "partner.steampowered.com", path |-> "/",     name |-> "steamMachineAuth7656", value |-> "f"],
      [domain |-> "partner.steampowered.com", path |-> "/",     name |-> "timezoneOffset",       value |-> "g"] }

\* What one call of browser_cookie3.<browser>() may return
Jars == DistinctSeqs(CookieRecords, MaxJarLen)

\* `cookie not in cookies`: the operand is the Cookie object itself, the dict is
\* keyed by name strings, and a Cookie never compares equal to a str.
CookieEqKey(cookie, key) == FALSE
CookieNotInCookies(cookie, d) == \A key \in DOMAIN d : ~CookieEqKey(cookie, key)

\* Mutant of Retained: the domain test is missing
RetainedAnyDomain(cookie, d, dash) ==
    /\ (StartsWith(cookie.name, "steam") \/ cookie.name = "sessionid")
    /\ CookieNotInCookies(cookie, d)

\* The condition of the if statement inside the for loop
Retained(cookie, d, dash) ==
    /\ cookie.domain = dash.portal_domain
    /\ (StartsWith(cookie.name, "steam") \/ cookie.name = "sessionid")
    /\ CookieNotInCookies(cookie, d)

\* The for loop over the jar, started with the dict d
RECURSIVE FilterJar(_, _, _)
FilterJar(jar, d, dash) ==
    IF jar = <<>> THEN d
    ELSE LET cookie == Head(jar)
         IN  FilterJar(Tail(jar),
                       IF Retained(cookie, d, dash)
                       THEN DictSet(d, cookie.name, cookie.value)
                       ELSE d,
                       dash)

\* Mutant of AllRequired: any() in place of the outer all()
AnyRequired(d, dash) ==
    \E check \in dash.cookies_required_prefixes :
        \E cookie \in DOMAIN d : StartsWith(cookie, check)

\* all(any(cookie.startswith(check) for cookie in cookies) for check in prefixes)
AllRequired(d, dash) ==
    \A check \in dash.cookies_required_prefixes :
        \E cookie \in DOMAIN d : StartsWith(cookie, check)

\* tries = 3
InitialTries == 3

\* The body of the while loop up to the if: the jar read, the dict the for loop
\* builds from an empty one, and the value of the all(...) test
AttemptOutcome(jar, dash) ==
    LET d == FilterJar(jar, EmptyDict, dash)
    IN  [jar |-> jar, cookies |-> d, ok |-> AllRequired(d, dash)]

\* The outcomes of one iteration, per dashboard, over every jar the browser may hold
AttemptOutcomes == [dash \in Dashboards |-> {AttemptOutcome(jar, dash) : jar \in Jars}]

\* Mutant of CookiesAfterAttempt: the dict of the earlier attempts is kept and
\* the names it holds are not overwritten
CookiesCarriedOver(prev, fresh) ==
    [name \in (DOMAIN prev) \cup (DOMAIN fresh) |->
        IF name \in DOMAIN prev THEN prev[name] ELSE fresh[name]]

\* `cookies = {}` at the top of the while body: the dict of the attempt replaces
\* the dict of the attempt before
CookiesAfterAttempt(prev, fresh) == fresh

\* Mutant of TriesAfter: `tries -= 1` outside the else branch
TriesAlwaysDecremented(t, ok) == t - 1

\* The if/else after the filter: break keeps tries, a failed check decrements it
TriesAfter(t, ok) == IF ok THEN t ELSE t - 1

\* One iteration of the while loop: read the jar, filter it, check the prefixes
Attempt ==
    /\ ck_pc = "while"
    /\ tries # 0
    /\ \E o \in AttemptOutcomes[dashboard] :
        /\ cj' = o.jar
        /\ cookies' = CookiesAfterAttempt(cookies, o.cookies)
        /\ reads' = reads + 1
        /\ attempts' = Append(attempts, o.ok)
        /\ ck_pc' = IF o.ok THEN "after" ELSE "while"
        /\ tries' = TriesAfter(tries, o.ok)
    /\ UNCHANGED <<dashboard, ga_vars, gp_vars>>

\* `while tries:` found false
LoopExit ==
    /\ ck_pc = "while"
    /\ tries = 0
    /\ ck_pc' = "after"
    /\ UNCHANGED <<dashboard, tries, cj, cookies, reads, attempts, ga_vars, gp_vars>>

\* if not tries: raise CookiesNotFound
RaiseCookiesNotFound ==
    /\ ck_pc = "after"
    /\ tries = 0
    /\ ck_pc' = "raised"
    /\ UNCHANGED <<dashboard, tries, cj, cookies, reads, attempts, ga_vars, gp_vars>>

\* return cookies
ReturnCookies ==
    /\ ck_pc = "after"
    /\ tries # 0
    /\ ck_pc' = "returned"
    /\ UNCHANGED <<dashboard, tries, cj, cookies, reads, attempts, ga_vars, gp_vars>>

(***************************************************************************)
(* get_apps                                                                *)
(***************************************************************************)

Digits == {"0", "1", "2", "3", "4", "5", "6", "7", "8", "9"}

DigitVal(c) ==
    CASE c = "0" -> 0 [] c = "1" -> 1 [] c = "2" -> 2 [] c = "3" -> 3 [] c = "4" -> 4
      [] c = "5" -> 5 [] c = "6" -> 6 [] c = "7" -> 7 [] c = "8" -> 8 [] c = "9" -> 9

\* str.isnumeric (on ASCII text)
IsNumeric(s) == Len(s) > 0 /\ \A i \in 1..Len(s) : SubSeq(s, i, i) \in Digits

\* int(part) for a numeric part
RECURSIVE ToInt(_)
ToInt(s) ==
    IF Len(s) = 0 THEN 0
    ELSE 10 * ToInt(SubSeq(s, 1, Len(s) - 1)) + DigitVal(SubSeq(s, Len(s), Len(s)))

\* [int(part) for part in parts if part.isnumeric()]
RECURSIVE NumericParts(_)
NumericParts(parts) ==
    IF parts = <<>> THEN <<>>
    ELSE IF IsNumeric(Head(parts))
         THEN <<ToInt(Head(parts))>> \o NumericParts(Tail(parts))
         ELSE NumericParts(Tail(parts))

\* str.strip (spaces)
RECURSIVE Strip(_)
Strip(s) ==
    IF Len(s) = 0 THEN s
    ELSE IF SubSeq(s, 1, 1) = " " THEN Strip(SubSeq(s, 2, Len(s)))
    ELSE IF SubSeq(s, Len(s), Len(s)) = " " THEN Strip(SubSeq(s, 1, Len(s) - 1))
    ELSE s

\* Longest listing in the model
MaxRows == 2

\* Number of <a> elements a recent_app_links div may hold
LinkCounts == {1, 2, 3}

\* The <a> of a recent_app_name div: its href as PurePosixPath(...).parts, and its text
NameElems ==
    { None,
      Some([href |-> <<"/", "apps", "landing", "10">>, text |-> " Alpha "]),
      Some([href |-> <<"/", "apps", "landing", "20">>, text |-> "Beta"]),
      Some([href |-> <<"/", "apps", "new">>,           text |-> "Gamma"]) }

TypeElems == {None, Some(" Game ")}

\* A recent_app_row div: each sub-element is None when the row does not contain it
Rows == [links : {None} \cup {Some(n) : n \in LinkCounts}, name : NameElems, type : TypeElems]

\* The listing page: whether the h2 heading exists, and the row divs that follow it
ListingPages ==
    {[heading |-> FALSE, rows |-> <<>>]} \cup
    {[heading |-> TRUE, rows |-> r] : r \in SeqsUpTo(Rows, MaxRows)}

\* app_row.find_next('div', {'class': cls}): the first such div after the start of
\* row i in document order, inside row i or inside any later row; None if none
RECURSIVE FindNext(_, _, _)
FindNext(rows, i, cls) ==
    IF i > Len(rows) THEN None
    ELSE IF rows[i][cls] # None THEN rows[i][cls]
    ELSE FindNext(rows, i + 1, cls)

\* The continue of the store_pages_only branch; "error" when find_next gave None
SkipRow(rows, i, flag) ==
    IF ~flag THEN "keep"
    ELSE LET links == FindNext(rows, i, "links")
         IN  IF links = None THEN "error"
             ELSE IF Val(links) < 2 THEN "skip"
             ELSE "keep"

\* The dict built for a kept row; None when building it raises
AppOf(rows, i) ==
    LET name_a   == FindNext(rows, i, "name")
        type_div == FindNext(rows, i, "type")
    IN  IF name_a = None \/ type_div = None THEN None
        ELSE LET ids == NumericParts(Val(name_a).href)
             IN  IF ids = <<>> THEN None
                 ELSE Some([appid |-> ids[Len(ids)],
                            name  |-> Strip(Val(name_a).text),
                            type  |-> Strip(Val(type_div))])

\* requests.get + BeautifulSoup + the two finds that locate app_rows
GaFetch ==
    /\ ga_pc = "fetch"
    /\ \E page \in ListingPages :
        /\ listing' = page
        /\ ga_pc' = IF page.heading THEN "loop" ELSE "raised"
    /\ row_i' = 1
    /\ apps' = <<>>
    /\ UNCHANGED <<store_pages_only, kept, ck_vars, gp_vars>>

\* Mutant of AppsAfterAppend: an app already in the list is not added again
AppsAfterAppendIfNew(l, app) == IF app \in Range(l) THEN l ELSE Append(l, app)

\* apps.append(app)
AppsAfterAppend(l, app) == Append(l, app)

\* One iteration of `for app_row in app_rows`
GaRow ==
    /\ ga_pc = "loop"
    /\ row_i <= Len(listing.rows)
    /\ LET skip == SkipRow(listing.rows, row_i, store_pages_only)
           app  == AppOf(listing.rows, row_i)
       IN  IF skip = "skip"
           THEN /\ row_i' = row_i + 1
                /\ UNCHANGED <<ga_pc, apps, kept>>
           ELSE IF skip = "error" \/ app = None
           THEN /\ ga_pc' = "raised"
                /\ UNCHANGED <<row_i, apps, kept>>
           ELSE /\ apps' = AppsAfterAppend(apps, Val(app))
                /\ kept' = Append(kept, row_i)
                /\ row_i' = row_i + 1
                /\ UNCHANGED ga_pc
    /\ UNCHANGED <<store_pages_only, listing, ck_vars, gp_vars>>

\* return apps
GaReturn ==
    /\ ga_pc = "loop"
    /\ row_i > Len(listing.rows)
    /\ ga_pc' = "returned"
    /\ UNCHANGED <<store_pages_only, listing, row_i, apps, kept, ck_vars, gp_vars>>

(***************************************************************************)
(* get_packages                                                            *)
(***************************************************************************)

\* Longest get_app_results list in the model
MaxApps == 3

\* ThreadPoolExecutor(max_workers=20)
max_workers == 20

\* The appids the dashboard knows in the model
AppIds == {10, 20, 30, 40, 50, 60}

PackageHref(id) == Some(<<"/", "store", "packagelanding", id>>)

\* What https://partner.steamgames.com/apps/associated/{appid} serves: whether
\* requests.get answers at all, whether the 'Store packages' div exists, and for
\* each 'tr released' row the href parts of its first <a href> (None: no such <a>)
DetailPage(appid) ==
    CASE appid = 10 -> [fetched |-> TRUE,  heading |-> TRUE,
                        rows |-> <<PackageHref("100"), PackageHref("101")>>]
      [] appid = 20 -> [fetched |-> TRUE,  heading |-> TRUE,
                        rows |-> <<PackageHref("200")>>]
      [] appid = 30 -> [fetched |-> TRUE,  heading |-> TRUE,
                        rows |-> <<PackageHref("300"), PackageHref("100")>>]
      [] appid = 40 -> [fetched |-> TRUE,  heading |-> TRUE,
                        rows |-> <<PackageHref("400"), PackageHref("new")>>]
      [] appid = 50 -> [fetched |-> FALSE, heading |-> FALSE, rows |-> <<>>]
      [] appid = 60 -> [fetched |-> TRUE,  heading |-> TRUE,  rows |-> <<>>]

\* The results of a previous get_apps call that a caller may pass in
AppResults == {[appid |-> a, name |-> "App", type |-> "Game"] : a \in AppIds}

\* The outer list comprehension over the rows; None when a row raises
RECURSIVE RowIds(_)
RowIds(rows) ==
    IF rows = <<>> THEN Some(<<>>)
    ELSE LET row  == Head(rows)
             rest == RowIds(Tail(rows))
         IN  IF row = None THEN None
             ELSE LET ids == NumericParts(Val(row))
                  IN  IF ids = <<>> \/ rest = None THEN None
                      ELSE Some(<<ids[Len(ids)]>> \o Val(rest))

\* The fetch and parse of app_thread: the list packageids, None when it raises
PackageIds(appid) ==
    LET page == DetailPage(appid)
    IN  IF ~page.fetched \/ ~page.heading THEN None
        ELSE RowIds(page.rows)

\* PackageIds tabulated over the appids of the model
PackageIdsOf == [appid \in AppIds |-> PackageIds(appid)]

\* Mutant of PackagesAfterInsert: packages[appid] = packageid
PackagesAfterSwappedInsert(d, packageid, appid) == DictSet(d, appid, packageid)

\* Mutant of PackagesAfterInsert: the dict is rebound instead of updated
PackagesRebound(d, packageid, appid) == [x \in {packageid} |-> appid]

\* Mutant of PackagesAfterInsert: packages.setdefault(packageid, appid)
PackagesAfterInsertIfAbsent(d, packageid, appid) ==
    IF packageid \in DOMAIN d THEN d ELSE DictSet(d, packageid, appid)

\* packages[packageid] = appid
PackagesAfterInsert(d, packageid, appid) == DictSet(d, packageid, appid)

\* Work items a pool thread is executing
Running == {i \in DOMAIN task : task[i].st \in {"running", "parsed", "locked"}}

\* Mutant of Joined: shutdown(wait=False), nothing is waited for
NotJoined == TRUE

\* shutdown(wait=True) has joined every pool thread: the queue is drained and
\* no work item is executing
Joined ==
    /\ work_queue = <<>>
    /\ \A i \in DOMAIN task : task[i].st \in {"done", "failed"}

\* Mutant of NeedsGetApps: `if not apps`
NeedsGetAppsIfEmpty(results) == results = None \/ results = Some(<<>>)

\* if apps is None
NeedsGetApps(results) == results = None

\* app_ids = [app['appid'] for app in apps]; packages = dict(); Lock(); the with
\* statement creates the executor
StartFanOut(results) ==
    /\ app_ids' = [i \in 1..Len(results) |-> results[i].appid]
    /\ task' = [i \in 1..Len(results) |->
                  [appid |-> results[i].appid, st |-> "new",
                   packageids |-> <<>>, k |-> 0, fetches |-> 0]]
    /\ packages' = [x \in {} |-> 0]
    /\ package_lock' = 0
    /\ gp_pc' = "map"

\* apps = get_app_results, which is not None
GpStart ==
    /\ gp_pc = "start"
    /\ ~NeedsGetApps(get_app_results)
    /\ StartFanOut(Val(get_app_results))
    /\ UNCHANGED <<get_app_results, submitted, work_queue, result, pool_threads, ck_vars, ga_vars>>

\* apps is None: apps = get_apps(cookies, store_pages_only) is called
GpCallGetApps ==
    /\ gp_pc = "start"
    /\ NeedsGetApps(get_app_results)
    /\ gp_pc' = "get_apps"
    /\ ga_pc' = "fetch"
    /\ listing' = [heading |-> FALSE, rows |-> <<>>]
    /\ row_i' = 0
    /\ apps' = <<>>
    /\ kept' = <<>>
    /\ UNCHANGED <<store_pages_only, get_app_results, app_ids, submitted, work_queue, task,
                   packages, package_lock, pool_threads, result, ck_vars>>

\* get_apps has returned its list.  The other locals of get_apps are gone
GpAppsReturned ==
    /\ gp_pc = "get_apps"
    /\ ga_pc = "returned"
    /\ StartFanOut(apps)
    /\ listing' = [heading |-> FALSE, rows |-> <<>>]
    /\ row_i' = 0
    /\ kept' = <<>>
    /\ UNCHANGED <<ga_pc, store_pages_only, apps, get_app_results, submitted, work_queue,
                   result, pool_threads, ck_vars>>

\* get_apps has raised: the exception leaves get_packages
GpAppsRaised ==
    /\ gp_pc = "get_apps"
    /\ ga_pc = "raised"
    /\ gp_pc' = "raised"
    /\ UNCHANGED <<get_app_results, app_ids, submitted, work_queue, task, packages,
                   package_lock, pool_threads, result, ck_vars, ga_vars>>

\* pool.map: submit the next element of app_ids
Submit ==
    /\ gp_pc = "map"
    /\ submitted < Len(app_ids)
    /\ submitted' = submitted + 1
    /\ work_queue' = Append(work_queue, submitted + 1)
    /\ task' = [task EXCEPT ![submitted + 1].st = "queued"]
    /\ UNCHANGED <<gp_pc, get_app_results, app_ids, packages, package_lock, result,
                   pool_threads, ck_vars, ga_vars>>

\* pool.map returns its result iterator, which is dropped; the with block ends
\* and calls shutdown(wait=True)
MapReturns ==
    /\ gp_pc = "map"
    /\ submitted = Len(app_ids)
    /\ gp_pc' = "shutdown"
    /\ UNCHANGED <<get_app_results, app_ids, submitted, work_queue, task, packages,
                   package_lock, result, pool_threads, ck_vars, ga_vars>>

\* Mutant of ThreadAvailable: a thread is started for every work item
ThreadAlwaysAvailable == TRUE

\* The executor runs at most max_workers threads, each on one work item at a time
ThreadAvailable == Cardinality(Running) < pool_threads

\* Mutant of QueueAfterTake: the work item is read but stays in the queue
QueueNotPopped(q) == q

\* work_queue.get(): the item taken leaves the queue
QueueAfterTake(q) == Tail(q)

\* A pool thread takes the oldest work item off the queue and calls app_thread
TakeWork ==
    /\ work_queue # <<>>
    /\ ThreadAvailable
    /\ task' = [task EXCEPT ![Head(work_queue)].st = "running"]
    /\ work_queue' = QueueAfterTake(work_queue)
    /\ UNCHANGED <<gp_pc, get_app_results, app_ids, submitted, packages, package_lock,
                   result, pool_threads, ck_vars, ga_vars>>

\* app_thread up to the with statement: fetch and parse.  An exception ends the
\* work item; the executor stores it in the item's future
FetchParse(i) ==
    /\ task[i].st = "running"
    /\ LET ids == PackageIdsOf[task[i].appid]
       IN  task' = IF ids = None
                   THEN [task EXCEPT ![i].st = "failed", ![i].fetches = @ + 1]
                   ELSE [task EXCEPT ![i].st = "parsed", ![i].fetches = @ + 1,
                                     ![i].packageids = Val(ids)]
    /\ UNCHANGED <<gp_pc, get_app_results, app_ids, submitted, work_queue, packages,
                   package_lock, result, pool_threads, ck_vars, ga_vars>>

\* Mutant of LockFree: the lock is not consulted
LockIgnored == TRUE

\* package_lock can be acquired
LockFree == package_lock = 0

\* with package_lock: (acquire)
Acquire(i) ==
    /\ task[i].st = "parsed"
    /\ LockFree
    /\ package_lock' = i
    /\ task' = [task EXCEPT ![i].st = "locked"]
    /\ UNCHANGED <<gp_pc, get_app_results, app_ids, submitted, work_queue, packages,
                   result, pool_threads, ck_vars, ga_vars>>

\* One iteration of `for packageid in packageids`
Insert(i) ==
    /\ task[i].st = "locked"
    /\ task[i].k < Len(task[i].packageids)
    /\ packages' = PackagesAfterInsert(packages, task[i].packageids[task[i].k + 1],
                                       task[i].appid)
    /\ task' = [task EXCEPT ![i].k = @ + 1]
    /\ UNCHANGED <<gp_pc, get_app_results, app_ids, submitted, work_queue,
                   package_lock, result, pool_threads, ck_vars, ga_vars>>

\* Mutant of LoopFinished: the with block is left after any number of iterations
LoopLeftEarly(i) == TRUE

\* The for loop over packageids is exhausted
LoopFinished(i) == task[i].k = Len(task[i].packageids)

\* End of the with package_lock block (release); app_thread returns
Release(i) ==
    /\ task[i].st = "locked"
    /\ LoopFinished(i)
    /\ package_lock' = 0
    /\ task' = [task EXCEPT ![i].st = "done"]
    /\ UNCHANGED <<gp_pc, get_app_results, app_ids, submitted, work_queue, packages,
                   result, pool_threads, ck_vars, ga_vars>>

\* shutdown(wait=True) returns once every pool thread is joined; return packages
GpReturn ==
    /\ gp_pc = "shutdown"
    /\ Joined
    /\ result' = Some(packages)
    /\ gp_pc' = "returned"
    /\ UNCHANGED <<get_app_results, app_ids, submitted, work_queue, task, packages,
                   package_lock, pool_threads, ck_vars, ga_vars>>

(***************************************************************************)
(* Specifications, one per function                                        *)
(***************************************************************************)

\* get_cookies called with either dashboard
InitCookies ==
    /\ dashboard \in Dashboards
    /\ ck_pc = "while"
    /\ tries = InitialTries
    /\ cj = <<>>
    /\ cookies = EmptyDict
    /\ reads = 0
    /\ attempts = <<>>
    /\ ga_pc = "idle"
    /\ store_pages_only = TRUE
    /\ listing = [heading |-> FALSE, rows |-> <<>>]
    /\ row_i = 0
    /\ apps = <<>>
    /\ kept = <<>>
    /\ gp_pc = "idle"
    /\ get_app_results = None
    /\ app_ids = <<>>
    /\ submitted = 0
    /\ work_queue = <<>>
    /\ task = <<>>
    /\ packages = [x \in {} |-> 0]
    /\ package_lock = 0
    /\ pool_threads = max_workers
    /\ result = None

NextCookies ==
    \/ Attempt
    \/ LoopExit
    \/ RaiseCookiesNotFound
    \/ ReturnCookies

SpecCookies == InitCookies /\ [][NextCookies]_vars

\* get_apps called with either value of store_pages_only
InitApps ==
    /\ dashboard = STEAMGAMES
    /\ ck_pc = "idle"
    /\ tries = InitialTries
    /\ cj = <<>>
    /\ cookies = EmptyDict
    /\ reads = 0
    /\ attempts = <<>>
    /\ ga_pc = "fetch"
    /\ store_pages_only \in BOOLEAN
    /\ listing = [heading |-> FALSE, rows |-> <<>>]
    /\ row_i = 0
    /\ apps = <<>>
    /\ kept = <<>>
    /\ gp_pc = "idle"
    /\ get_app_results = None
    /\ app_ids = <<>>
    /\ submitted = 0
    /\ work_queue = <<>>
    /\ task = <<>>
    /\ packages = [x \in {} |-> 0]
    /\ package_lock = 0
    /\ pool_threads = max_workers
    /\ result = None

NextApps ==
    \/ GaFetch
    \/ GaRow
    \/ GaReturn

SpecApps == InitApps /\ [][NextApps]_vars

\* get_packages called with the results of a previous get_apps call, or without
InitPackages ==
    /\ dashboard = STEAMGAMES
    /\ ck_pc = "idle"
    /\ tries = InitialTries
    /\ cj = <<>>
    /\ cookies = EmptyDict
    /\ reads = 0
    /\ attempts = <<>>
    /\ ga_pc = "idle"
    /\ get_app_results \in {None} \cup {Some(r) : r \in SeqsUpTo(AppResults, MaxApps)}
    /\ store_pages_only \in (IF get_app_results = None THEN BOOLEAN ELSE {TRUE})
    /\ listing = [heading |-> FALSE, rows |-> <<>>]
    /\ row_i = 0
    /\ apps = <<>>
    /\ kept = <<>>
    /\ gp_pc = "start"
    /\ app_ids = <<>>
    /\ submitted = 0
    /\ work_queue = <<>>
    /\ task = <<>>
    /\ packages = [x \in {} |-> 0]
    /\ package_lock = 0
    /\ pool_threads = max_workers
    /\ result = None

\* The fan-out of get_packages over a list it was given
NextFanOut ==
    \/ GpStart
    \/ Submit
    \/ MapReturns
    \/ TakeWork
    \/ \E i \in DOMAIN task : FetchParse(i)
    \/ \E i \in DOMAIN task : Acquire(i)
    \/ \E i \in DOMAIN task : Insert(i)
    \/ \E i \in DOMAIN task : Release(i)
    \/ GpReturn

NextPackages ==
    \/ NextFanOut
    \/ GpCallGetApps
    \/ NextApps
    \/ GpAppsReturned
    \/ GpAppsRaised

SpecPackages == InitPackages /\ [][NextPackages]_vars

\* Largest max_workers of the scaled-down executor
MaxPoolThreads == 2

\* get_packages with the executor's max_workers scaled down from 20, so that the
\* list can be longer than the pool
InitSmallPool ==
    /\ dashboard = STEAMGAMES
    /\ ck_pc = "idle"
    /\ tries = InitialTries
    /\ cj = <<>>
    /\ cookies = EmptyDict
    /\ reads = 0
    /\ attempts = <<>>
    /\ ga_pc = "idle"
    /\ store_pages_only = TRUE
    /\ listing = [heading |-> FALSE, rows |-> <<>>]
    /\ row_i = 0
    /\ apps = <<>>
    /\ kept = <<>>
    /\ gp_pc = "start"
    /\ get_app_results \in {Some(r) : r \in SeqsUpTo(AppResults, MaxApps)}
    /\ app_ids = <<>>
    /\ submitted = 0
    /\ work_queue = <<>>
    /\ task = <<>>
    /\ packages = [x \in {} |-> 0]
    /\ package_lock = 0
    /\ pool_threads \in 1..MaxPoolThreads
    /\ result = None

SpecSmallPool == InitSmallPool /\ [][NextFanOut]_vars

(***************************************************************************)
(* The script: if __name__ == '__main__'                                   *)
(***************************************************************************)

\* Mutant of CookiesReturned: CookiesNotFound is caught and the script goes on
CookiesReturnedOrRaised == ck_pc \in {"returned", "raised"}

\* Dashboards.STEAMGAMES.cookies(...) has returned; an exception it raises is not
\* caught and ends the script
CookiesReturned == ck_pc = "returned"

\* apps = get_apps(cookies).  The locals of get_cookies other than the dict it
\* returned are gone
MainCallGetApps ==
    /\ CookiesReturned
    /\ ga_pc = "idle"
    /\ ga_pc' = "fetch"
    /\ store_pages_only' = TRUE
    /\ cj' = <<>>
    /\ tries' = InitialTries
    /\ UNCHANGED <<dashboard, ck_pc, cookies, reads, attempts,
                   listing, row_i, apps, kept, gp_vars>>

\* packages = get_packages(cookies, get_app_results=apps).  The locals of
\* get_apps other than the list it returned are gone
MainCallGetPackages ==
    /\ ga_pc = "returned"
    /\ gp_pc = "idle"
    /\ gp_pc' = "start"
    /\ get_app_results' = Some(apps)
    /\ listing' = [heading |-> FALSE, rows |-> <<>>]
    /\ row_i' = 0
    /\ kept' = <<>>
    /\ UNCHANGED <<ga_pc, store_pages_only, apps, app_ids, submitted, work_queue, task,
                   packages, package_lock, pool_threads, result, ck_vars>>

InitMain ==
    /\ dashboard = STEAMGAMES
    /\ ck_pc = "while"
    /\ tries = InitialTries
    /\ cj = <<>>
    /\ cookies = EmptyDict
    /\ reads = 0
    /\ attempts = <<>>
    /\ ga_pc = "idle"
    /\ store_pages_only = TRUE
    /\ listing = [heading |-> FALSE, rows |-> <<>>]
    /\ row_i = 0
    /\ apps = <<>>
    /\ kept = <<>>
    /\ gp_pc = "idle"
    /\ get_app_results = None
    /\ app_ids = <<>>
    /\ submitted = 0
    /\ work_queue = <<>>
    /\ task = <<>>
    /\ packages = [x \in {} |-> 0]
    /\ package_lock = 0
    /\ pool_threads = max_workers
    /\ result = None

NextMain ==
    \/ NextCookies
    \/ MainCallGetApps
    \/ NextApps
    \/ MainCallGetPackages
    \/ NextFanOut

SpecMain == InitMain /\ [][NextMain]_vars

(***************************************************************************)
(* Properties of get_cookies                                               *)
(***************************************************************************)

\* The filter as the contract states it: target domain, and a name that starts
\* with the authentication prefix or is the session-cookie name
PassesFilter(cookie) ==
    /\ cookie.domain = dashboard.portal_domain
    /\ (StartsWith(cookie.name, "steam") \/ cookie.name = "sessionid")

AllFailed == \A k \in 1..Len(attempts) : ~attempts[k]

\* C4: while every jar read so far failed the prefix check the loop goes on to a
\* next read until exactly 3 reads were made, one per attempt; CookiesNotFound is
\* raised only after exactly 3 failed attempts, and a call whose 3 attempts all
\* failed cannot return.
C4_ExactlyMaxAttempts ==
    /\ reads = Len(attempts)
    /\ reads <= InitialTries
    /\ (AllFailed /\ reads < InitialTries) => (ck_pc = "while" /\ tries = InitialTries - reads)
    /\ (AllFailed /\ reads = InitialTries) => (ck_pc \in {"while", "after", "raised"} /\ tries = 0)
    /\ ck_pc = "raised" => (AllFailed /\ reads = InitialTries)

C4_Witness == ck_pc = "raised" /\ reads = InitialTries /\ AllFailed

\* C5: the attempt just made succeeded (the loop was left by break, so that
\* get_cookies returns) if and only if every required prefix of the dashboard is
\* the start of the name of some jar record that passes the filter.
C5_SuccessIffAllPrefixes ==
    attempts # <<>> =>
        LET success == attempts[Len(attempts)]
        IN  /\ success <=>
                 \A check \in dashboard.cookies_required_prefixes :
                    \E k \in 1..Len(cj) :
                        PassesFilter(cj[k]) /\ StartsWith(cj[k].name, check)
            /\ success <=> (ck_pc \in {"after", "returned"} /\ tries # 0)

C5_Witness ==
    /\ ck_pc = "returned"
    /\ reads = 1
    /\ dashboard = STEAMGAMES
    /\ DOMAIN cookies = {"sessionid", "steamLoginSecure", "steamMachineAuth7656"}

\* C6: every name/value pair of the returned dict is the name and value of a jar
\* record of the dashboard's portal_domain whose name passes the name test.
C6_OnlyFilteredRecords ==
    ck_pc = "returned" =>
        \A name \in DOMAIN cookies :
            \E k \in 1..Len(cj) :
                /\ cj[k].name = name
                /\ cj[k].value = cookies[name]
                /\ PassesFilter(cj[k])

C6_Witness ==
    /\ ck_pc = "returned"
    /\ \E k \in 1..Len(cj) : cj[k].domain # dashboard.portal_domain
    /\ DOMAIN cookies # {}

\* Index of the first jar record that passes the filter and has the given name
FirstRetained(name) ==
    CHOOSE k \in 1..Len(cj) :
        /\ PassesFilter(cj[k]) /\ cj[k].name = name
        /\ \A j \in 1..(k - 1) : ~(PassesFilter(cj[j]) /\ cj[j].name = name)

\* C7: the returned dict holds, for each name, the value of the first jar record
\* (in iteration order) that passes the filter and has that name.
C7_FirstOccurrenceWins ==
    ck_pc = "returned" =>
        \A name \in DOMAIN cookies : cookies[name] = cj[FirstRetained(name)].value

\* The jar of the current read satisfies the required-prefix check
JarSatisfies ==
    \A check \in dashboard.cookies_required_prefixes :
        \E k \in 1..Len(cj) : PassesFilter(cj[k]) /\ StartsWith(cj[k].name, check)

\* C13: when the jar of the k-th read is the first that satisfies the check,
\* get_cookies leaves the loop after exactly k reads with tries still positive
\* (so it returns and does not raise), and the dict holds exactly one pair per
\* name of a filtered record of that k-th jar, with a value of such a record:
\* nothing of the jars read before.
C13_FreshReadEachAttempt ==
    /\ (attempts # <<>> /\ JarSatisfies) =>
          /\ ck_pc \in {"after", "returned"}
          /\ tries = InitialTries - (reads - 1)
          /\ \A j \in 1..(reads - 1) : ~attempts[j]
          /\ attempts[reads]
    /\ ck_pc \in {"after", "returned", "raised"} /\ attempts # <<>> =>
          /\ DOMAIN cookies = {cj[k].name : k \in {q \in 1..Len(cj) : PassesFilter(cj[q])}}
          /\ \A name \in DOMAIN cookies :
                \E k \in 1..Len(cj) :
                    PassesFilter(cj[k]) /\ cj[k].name = name /\ cj[k].value = cookies[name]
    /\ ck_pc = "returned" => (JarSatisfies /\ reads = Len(attempts) /\ reads >= 1)

C13_Witness ==
    /\ ck_pc = "returned"
    /\ reads = 2
    /\ ~attempts[1] /\ attempts[2]

(***************************************************************************)
(* Properties of get_apps                                                  *)
(***************************************************************************)

\* A row whose own recent_app_links div holds fewer than 2 <a> elements
FewOwnLinks(row) == row.links # None /\ Val(row.links) < 2

\* C8: when get_apps returns, the rows it made a record for are, with
\* store_pages_only set, exactly the rows other than those whose own links div
\* has fewer than 2 hyperlinks, and with the flag unset all the rows.
C8_PublicOnlyFilter ==
    ga_pc = "returned" =>
        Range(kept) = {i \in 1..Len(listing.rows) :
                          ~store_pages_only \/ ~FewOwnLinks(listing.rows[i])}

(***************************************************************************)
(* Properties of get_packages                                              *)
(***************************************************************************)

\* The dict after `for packageid in ids: d[packageid] = appid`
RECURSIVE InsertAll(_, _, _)
InsertAll(d, ids, appid) ==
    IF ids = <<>> THEN d
    ELSE InsertAll(DictSet(d, Head(ids), appid), Tail(ids), appid)

\* The dict one thread builds when it runs app_thread on the list in order
RECURSIVE MergeInOrder(_, _)
MergeInOrder(ids, d) ==
    IF ids = <<>> THEN d
    ELSE LET found == PackageIdsOf[Head(ids)]
         IN  MergeInOrder(Tail(ids),
                          IF found = None THEN d ELSE InsertAll(d, Val(found), Head(ids)))

\* The package ids app_thread extracts for an appid (none when it raises)
Extracted(appid) ==
    IF PackageIdsOf[appid] = None THEN {} ELSE Range(Val(PackageIdsOf[appid]))

\* No package id is extracted for two different appids of the list
NoSharedPackage ==
    \A i, j \in 1..Len(app_ids) :
        app_ids[i] # app_ids[j] => Extracted(app_ids[i]) \cap Extracted(app_ids[j]) = {}

\* C1 as claimed: whatever the interleaving of the workers, the returned dict is
\* the one dict that running the workers one after the other in list order gives.
C1_SameMapForEveryInterleaving ==
    gp_pc = "returned" => Val(result) = MergeInOrder(app_ids, [x \in {} |-> 0])

\* C1 as amended: when no package id is extracted for two different appids of
\* the list, the returned dict is the same for every interleaving of the workers.
C1_SameMapWithoutSharedPackage ==
    (gp_pc = "returned" /\ NoSharedPackage) =>
        Val(result) = MergeInOrder(app_ids, [x \in {} |-> 0])

C1_Witness ==
    /\ gp_pc = "returned"
    /\ app_ids = <<10, 20>>
    /\ DOMAIN Val(result) = {100, 101, 200}
    /\ Val(result)[100] = 10 /\ Val(result)[101] = 10 /\ Val(result)[200] = 20

\* C2: once a call of app_thread has failed, get_packages does not return a dict.
C2_WorkerFailureIsFatal ==
    (\E i \in DOMAIN task : task[i].st = "failed") => (gp_pc # "returned" /\ result = None)

\* C3: when get_packages has returned, every element of app_ids was submitted,
\* no work item is queued or executing, the lock is free, and the dict the caller
\* got is the final content of packages.
C3_ReturnsAfterAllWorkers ==
    gp_pc = "returned" =>
        /\ submitted = Len(app_ids)
        /\ work_queue = <<>>
        /\ \A i \in 1..Len(app_ids) : task[i].st \in {"done", "failed"}
        /\ package_lock = 0
        /\ Val(result) = packages

C3_Witness ==
    /\ gp_pc = "returned"
    /\ Len(app_ids) >= 2
    /\ \A i \in 1..Len(app_ids) : task[i].st = "done" /\ task[i].packageids # <<>>

\* The package ids the detail page of an appid lists: the last numeric part of
\* the href of each of its rows that has one
ListedOn(appid) ==
    LET page == DetailPage(appid)
    IN  IF ~page.fetched \/ ~page.heading THEN {}
        ELSE {NumericParts(Val(page.rows[r]))[Len(NumericParts(Val(page.rows[r])))] :
                 r \in {q \in 1..Len(page.rows) :
                           page.rows[q] # None /\ NumericParts(Val(page.rows[q])) # <<>>}}

\* The pairs <<appid, packageid>> with packageid listed on the page of appid
ListedPairs == UNION {{<<appid, packageid>> : packageid \in ListedOn(appid)} : appid \in AppIds}

\* C9: in every state each entry of packages maps a package id listed on the
\* detail page of the entry's appid, and that appid is an element of app_ids.
C9_EntriesComeFromOwnPage ==
    \A packageid \in DOMAIN packages :
        /\ packages[packageid] \in Range(app_ids)
        /\ <<packages[packageid], packageid>> \in ListedPairs

C9_Witness ==
    /\ gp_pc \in {"map", "shutdown"}
    /\ \E i, j \in DOMAIN task :
        /\ task[i].st = "locked" /\ task[i].k = 1 /\ Len(task[i].packageids) = 2
        /\ task[j].st = "running"
    /\ DOMAIN packages # {}

\* C10: when get_packages returns, every package id listed on the detail page of
\* every element of app_ids is a key of the returned dict.
C10_NoEntitySkipped ==
    gp_pc = "returned" =>
        \A i \in 1..Len(app_ids) :
            \A pair \in ListedPairs : pair[1] = app_ids[i] => pair[2] \in DOMAIN Val(result)

\* Work items inside the with package_lock block
InSection == {i \in DOMAIN task : task[i].st = "locked"}

\* C11: at most one work item is inside the with package_lock block, it is the
\* holder of package_lock, and every step that changes packages is a step of the
\* work item that holds the lock before and after the step.
C11_SingleLockGuardsWrites ==
    /\ [](/\ Cardinality(InSection) <= 1
          /\ \A i \in DOMAIN task : (i \in InSection) <=> (package_lock = i))
    /\ [][packages' # packages =>
             /\ package_lock # 0
             /\ package_lock' = package_lock
             /\ task[package_lock].st = "locked"
             /\ task'[package_lock].k = task[package_lock].k + 1]_vars

C11_Witness ==
    \E i, j \in DOMAIN task :
        /\ task[i].st = "locked" /\ task[i].k = 1
        /\ package_lock = i
        /\ task[j].st = "parsed"

\* C12: when get_apps returns, apps holds one record per kept row, in the order
\* of the rows on the page, each the record built for that row; equal records
\* of two kept rows both stay.
C12_DocumentOrderNoDedup ==
    ga_pc = "returned" =>
        /\ Len(apps) = Len(kept)
        /\ \A j \in 1..Len(kept) :
            /\ kept[j] \in 1..Len(listing.rows)
            /\ apps[j] = Val(AppOf(listing.rows, kept[j]))
        /\ \A j, k \in 1..Len(kept) : j < k => kept[j] < kept[k]
        /\ \A i \in 1..Len(listing.rows) :
            SkipRow(listing.rows, i, store_pages_only) = "keep" => i \in Range(kept)

C12_Witness ==
    /\ ga_pc = "returned"
    /\ Len(apps) = 2
    /\ apps[1].appid = apps[2].appid
    /\ listing.rows[1].name # None /\ listing.rows[2].name # None

\* C14: in every state the number of calls of app_thread in progress is at most
\* the executor's max_workers, also while more elements of the list wait.
C14_BoundedFanOut ==
    /\ Cardinality(Running) <= pool_threads
    /\ Cardinality(Running) + Len(work_queue) <= Len(app_ids)

C14_Witness ==
    /\ pool_threads = MaxPoolThreads
    /\ Cardinality(Running) = pool_threads
    /\ work_queue # <<>>

\* C15: every write to packages is made by the holder of the lock, sets one of
\* the holder's package ids to the holder's appid whatever another worker put
\* there, and leaves every other key as it was; and when a worker releases the
\* lock each of its package ids maps to its appid.  Hence a package id listed
\* for two appids maps, at return, to the appid of the worker that took the
\* lock last, and the other keys of the earlier worker are kept.
C15_LastWriterWins ==
    [][/\ packages' # packages =>
            /\ package_lock # 0
            /\ \E packageid \in Range(task[package_lock].packageids) :
                  packages' = DictSet(packages, packageid, task[package_lock].appid)
       /\ \A i \in DOMAIN task :
            (i \in DOMAIN task' /\ task[i].st = "locked" /\ task'[i].st = "done") =>
                \A packageid \in Range(task[i].packageids) :
                    packages'[packageid] = task[i].appid]_vars

C15_Witness ==
    /\ gp_pc = "returned"
    /\ app_ids = <<30, 10>>
    /\ Val(result)[100] = 30
    /\ Val(result)[101] = 10
    /\ Val(result)[300] = 30

\* A row that holds the structure get_apps reads from it: its own name link with
\* a numeric path part, its own type div and, under store_pages_only, its own
\* links div
HasExpectedStructure(row) ==
    /\ row.name # None
    /\ NumericParts(Val(row.name).href) # <<>>
    /\ row.type # None
    /\ store_pages_only => row.links # None

\* C16: get_apps returns a list only for a page that has the heading and on
\* which every kept row holds the expected structure; otherwise it raises.
C16_MissingStructureIsFatal ==
    ga_pc = "returned" =>
        /\ listing.heading
        /\ \A i \in Range(kept) : HasExpectedStructure(listing.rows[i])

(***************************************************************************)
(* Properties of the script                                                *)
(***************************************************************************)

\* C17: get_apps is entered only after get_cookies returned, get_packages only
\* after get_apps returned; once get_cookies raised CookiesNotFound neither the
\* listing nor any detail page is ever fetched.
C17_StagesInOrder ==
    /\ ga_pc # "idle" => ck_pc = "returned"
    /\ gp_pc # "idle" => (ck_pc = "returned" /\ ga_pc = "returned")
    /\ ck_pc = "raised" =>
          /\ ga_pc = "idle" /\ gp_pc = "idle"
          /\ ~listing.heading /\ task = <<>>

C17_Witness ==
    /\ ck_pc = "raised"
    /\ reads = InitialTries
    /\ ga_pc = "idle"
    /\ gp_pc = "idle"

\* C18: given a list (the empty one included) get_packages never starts get_apps
\* and fans out over exactly the appids of the list, in its order; given None
\* it goes through get_apps and fans out over the appids get_apps returned.
C18_SuppliedResultsAreUsed ==
    /\ get_app_results # None =>
          /\ ga_pc = "idle"
          /\ gp_pc \notin {"get_apps", "raised"}
          /\ gp_pc \in {"map", "shutdown", "returned"} =>
                /\ Len(app_ids) = Len(Val(get_app_results))
                /\ DOMAIN task = 1..Len(app_ids)
                /\ \A i \in 1..Len(app_ids) :
                      /\ app_ids[i] = Val(get_app_results)[i].appid
                      /\ task[i].appid = app_ids[i]
    /\ (get_app_results = None /\ gp_pc \notin {"idle", "start"}) =>
          /\ ga_pc # "idle"
          /\ gp_pc \in {"map", "shutdown", "returned"} =>
                /\ ga_pc = "returned"
                /\ app_ids = [i \in 1..Len(apps) |-> apps[i].appid]

C18_Witness ==
    /\ get_app_results = Some(<<>>)
    /\ gp_pc = "returned"
    /\ ga_pc = "idle"
    /\ result = Some([x \in {} |-> 0])

\* The appids whose detail page request fails
FetchFailing == {appid \in AppIds : ~DetailPage(appid).fetched}

\* How often work item i is in the queue
QueuedTimes(i) == Cardinality({j \in 1..Len(work_queue) : work_queue[j] = i})

\* C19: when no fetch fails, every element of the input list (a repeated appid
\* counts once per occurrence) is one work item, which is queued at most once
\* and never while a worker has it; its detail page is never fetched twice and,
\* when get_packages returns, has been fetched exactly once, whatever the pool
\* size and the schedule.
C19_EachElementFetchedOnce ==
    (/\ gp_pc \in {"map", "shutdown", "returned"}
     /\ \A i \in 1..Len(app_ids) : app_ids[i] \notin FetchFailing) =>
        /\ DOMAIN task = 1..Len(app_ids)
        /\ \A i \in 1..Len(app_ids) :
              /\ task[i].appid = app_ids[i]
              /\ task[i].fetches <= 1
              /\ QueuedTimes(i) = (IF task[i].st = "queued" THEN 1 ELSE 0)
              /\ task[i].st \in {"new", "queued", "running"} => task[i].fetches = 0
              /\ gp_pc = "returned" => task[i].fetches = 1

C19_Witness ==
    /\ gp_pc = "returned"
    /\ pool_threads = 1
    /\ app_ids = <<10, 20, 10>>
    /\ \A i \in 1..3 : task[i].fetches = 1 /\ task[i].st = "done"

\* C20: a worker inserts only after its fetch and parse have completed and only
\* while it holds the lock; whenever the lock is free each worker has applied
\* none of its insertions or all of them, and a worker whose fetch or parse
\* failed has applied none.
C20_AllOrNothingPerWorker ==
    gp_pc \in {"map", "shutdown", "returned"} =>
        \A i \in DOMAIN task :
            /\ task[i].st \in {"new", "queued", "running", "failed", "parsed"} => task[i].k = 0
            /\ task[i].st = "locked" => package_lock = i
            /\ task[i].st = "done" => task[i].k = Len(task[i].packageids)
            /\ package_lock = 0 =>
                  \/ task[i].k = 0
                  \/ /\ task[i].st = "done"
                     /\ task[i].k = Len(task[i].packageids)
                     /\ \A n \in 1..task[i].k : task[i].packageids[n] \in DOMAIN packages
            /\ task[i].st = "failed" => task[i].packageids = <<>>

C20_Witness ==
    /\ gp_pc = "returned"
    /\ app_ids = <<40, 10, 50>>
    /\ task[1].st = "failed"
    /\ task[2].st = "done" /\ task[2].k = 2
    /\ task[3].st = "failed"
    /\ result = Some(DictSet(DictSet(EmptyDict, 100, 10), 101, 10))

====
